---- MODULE Spec2Model ----
(***************************************************************************)
(* Model of the inverse-perspective-mapping frame pipeline: main.cpp       *)
(* (PerformanceTracker, IPM, pictureInPicture, processImageSequence,       *)
(* processVideo, main) and Logger.h (log, startTimer, endTimer).           *)
(***************************************************************************)
EXTENDS Integers, Sequences, FiniteSets, TLC

(* ---------------------------------------------------------------------- *)
(* Bounds of the model                                                     *)
(* ---------------------------------------------------------------------- *)
MaxFrames == 3

(* ---------------------------------------------------------------------- *)
(* Program constants                                                       *)
(* ---------------------------------------------------------------------- *)
FrameWidth == 1280
FrameHeight == 800
SampleEvery == 30
ProgressEvery == 100
VideoSlowMs == 30
IpmSlowLimit == 10
DefaultRatio == 3
DefaultBorder == 3
DefaultXMargin == 30
DefaultYOffsetAdjust == -100

(* Size of the frames the sources deliver before the driver resizes them.  *)
SrcCols == 1920
SrcRows == 1080

(* ---------------------------------------------------------------------- *)
(* Frames (cv::Mat): a size and an abstract description of the pixels.     *)
(* ---------------------------------------------------------------------- *)
NoRoi == <<0, 0, 0, 0>>

EmptyMat == [id |-> 0, cols |-> 0, rows |-> 0, img |-> <<"empty">>, roi |-> NoRoi]

SourceFrame(i) ==
    [id |-> i, cols |-> SrcCols, rows |-> SrcRows, img |-> <<"src">>, roi |-> NoRoi]

MatEmptyRowsOnly(m) == m.rows = 0

MatEmpty(m) == m.cols = 0 \/ m.rows = 0

(* cv::resize(src, dst, Size(w, h)): dst has exactly the requested size.   *)
Resize(m, w, h) == [m EXCEPT !.cols = w, !.rows = h]

(* cv::warpPerspective(src, dst, M, Size(w, h)): a canvas of size (w, h).  *)
WarpPerspective(m, w, h) ==
    [m EXCEPT !.cols = w, !.rows = h, !.img = <<"warp">> \o m.img]

(* ---------------------------------------------------------------------- *)
(* IPM (main.cpp 59-109).  throwAt names the library call that raises, or  *)
(* "none"; elapsedUs is the time the clock measures for the call.          *)
(* ---------------------------------------------------------------------- *)
IpmCalls == {"ipm.getPerspectiveTransform", "ipm.warpPerspective", "ipm.resize"}

(* the calls enclosed by the try block of IPM (main.cpp 85-108) *)
IpmTryRegion == {"ipm.getPerspectiveTransform", "ipm.warpPerspective", "ipm.resize"}

IPMSkipResize(image, throwAt, elapsedUs) ==
    LET height == image.rows
        width == image.cols
        dbg == << <<"DEBUG", "IPM: Processing frame">> >>
    IN  IF throwAt \in IpmCalls
        THEN [out |-> image, escaped |-> throwAt \notin IpmTryRegion,
              logs |-> dbg \o << <<"ERROR", "IPM failed">> >>]
        ELSE [out |-> WarpPerspective(image, width, height * 2),
              escaped |-> FALSE, logs |-> dbg]

IPM(image, throwAt, elapsedUs) ==
    LET height == image.rows
        width == image.cols
        dbg == << <<"DEBUG", "IPM: Processing frame">> >>
        (* duration_cast<milliseconds>(...).count() / 1000.0 *)
        durationMs == elapsedUs \div 1000
        (* ms > 10.0 with ms = durationMs / 1000.0 *)
        slow == durationMs > IpmSlowLimit * 1000
    IN  IF throwAt \in IpmCalls
        THEN IF throwAt \in IpmTryRegion
             THEN [out |-> image, escaped |-> FALSE,
                   logs |-> dbg \o << <<"ERROR", "IPM failed">> >>]
             ELSE [out |-> image, escaped |-> TRUE, logs |-> dbg]
        ELSE LET warped_image == WarpPerspective(image, width, height * 2)
                 final_warped_image == Resize(warped_image, width, height)
             IN  [out |-> final_warped_image, escaped |-> FALSE,
                  logs |-> dbg \o (IF slow
                                   THEN << <<"WARN", "IPM processing slow">> >>
                                   ELSE << >>)]

(* ---------------------------------------------------------------------- *)
(* static_cast<int>(new_height * (static_cast<double>(cols) / rows))       *)
(* (main.cpp 123), computed as IEEE-754 binary64 computes it: the quotient *)
(* is rounded to 53 bits, the product is rounded to 53 bits, the cast      *)
(* truncates.  Only small integers are needed: the rounding error of the   *)
(* quotient is the residue of cols * 2^e modulo rows.                      *)
(* ---------------------------------------------------------------------- *)
RECURSIVE PowMod(_, _, _)
PowMod(b, e, r) == IF e = 0 THEN 1 % r ELSE (b * PowMod(b, e - 1, r)) % r

RECURSIVE FloorLog2(_)
FloorLog2(n) == IF n <= 1 THEN 0 ELSE 1 + FloorLog2(n \div 2)

RECURSIVE ShiftToReach(_, _)
(* the least s with c * 2^s >= r *)
ShiftToReach(c, r) == IF c >= r THEN 0 ELSE 1 + ShiftToReach(2 * c, r)

(* floor(log2(c / r)) for c, r > 0 *)
RatioExponent(c, r) == IF c >= r THEN FloorLog2(c \div r) ELSE 0 - ShiftToReach(c, r)

RECURSIVE CeilLog2(_)
(* the least k with 2^k >= n, n >= 1 *)
CeilLog2(n) == IF n <= 1 THEN 0 ELSE 1 + CeilLog2((n + 1) \div 2)

ExactScaleRoundUp(h, c, r) == (h * c + r - 1) \div r

DoubleScaleTrunc(h, c, r) ==
    LET K == (h * c) \div r
        f == (h * c) % r
        t == RatioExponent(c, r)
        e == 52 - t
        x == (c * PowMod(2, e, r)) % r
        m == CeilLog2(K) - 1
        a == 1 + t - m
        below == IF a >= 0 THEN h * x * (2 ^ a) > r ELSE h * x > r * (2 ^ (0 - a))
    IN  IF c = 0 THEN 0
        ELSE IF f # 0 \/ x = 0 \/ 2 * x >= r THEN K
        ELSE IF below THEN K - 1 ELSE K

(* ---------------------------------------------------------------------- *)
(* pictureInPicture (main.cpp 112-153).  throwAt names a library call that *)
(* raises for a reason outside the arguments, or "none".                   *)
(* ---------------------------------------------------------------------- *)
PipCalls == {"pip.resize", "pip.copyMakeBorder"}

(* cv::resize rejects an empty destination size (width <= 0 or height <= 0) *)
ResizeRejects(w, h) == w <= 0 \/ h <= 0

(* cv::copyMakeBorder rejects a negative border *)
BorderRejects(border_size) == border_size < 0

(* the bounds test of main.cpp 139-141 *)
FitsWithinNoTop(x_offset, y_offset, w, h, main_image) ==
    /\ x_offset >= 0
    /\ x_offset + w <= main_image.cols
    /\ y_offset + h <= main_image.rows

FitsWithin(x_offset, y_offset, w, h, main_image) ==
    /\ x_offset >= 0
    /\ y_offset >= 0
    /\ x_offset + w <= main_image.cols
    /\ y_offset + h <= main_image.rows

pictureInPicture(main_image, overlay_image, img_ratio, border_size, x_margin, y_offset_adjust, throwAt) ==
    IF MatEmpty(main_image) \/ MatEmpty(overlay_image)
    THEN [out |-> main_image, pasted |-> FALSE, attempted |-> FALSE,
          logs |-> << <<"ERROR", "PIP: One or both images are empty">> >>]
    ELSE
      LET new_height == main_image.rows \div img_ratio
          new_width == DoubleScaleTrunc(new_height, overlay_image.cols, overlay_image.rows)
          failed == << <<"ERROR", "PIP failed">> >>
      IN  IF throwAt = "pip.resize" \/ ResizeRejects(new_width, new_height)
          THEN [out |-> main_image, pasted |-> FALSE, attempted |-> TRUE, logs |-> failed]
          ELSE IF throwAt = "pip.copyMakeBorder" \/ BorderRejects(border_size)
          THEN [out |-> main_image, pasted |-> FALSE, attempted |-> TRUE, logs |-> failed]
          ELSE
            LET bcols == new_width + 2 * border_size
                brows == new_height + 2 * border_size
                x_offset == main_image.cols - bcols - x_margin
                y_offset == (main_image.rows \div 2) - brows + y_offset_adjust
            IN  IF FitsWithin(x_offset, y_offset, bcols, brows, main_image)
                THEN [out |-> [main_image EXCEPT
                                 !.img = <<"pip">> \o main_image.img,
                                 !.roi = <<x_offset, y_offset, bcols, brows>>],
                      pasted |-> TRUE, attempted |-> TRUE, logs |-> << >>]
                ELSE [out |-> main_image, pasted |-> FALSE, attempted |-> TRUE,
                      logs |-> << >>]

(* ---------------------------------------------------------------------- *)
(* Logger timers (Logger.h 58-76): the map is modelled by its key set.     *)
(* ---------------------------------------------------------------------- *)
startTimer(tm, operation) == tm \cup {operation}

endTimer(tm, operation) ==
    IF operation \in tm
    THEN [timers |-> tm \ {operation}, logs |-> << <<"INFO", "PERF">> >>]
    ELSE [timers |-> tm, logs |-> << <<"WARN", "Timer not found">> >>]

(* ---------------------------------------------------------------------- *)
(* PerformanceTracker (main.cpp 16-56); times in microseconds.             *)
(* ---------------------------------------------------------------------- *)
NewPerformanceTracker(now) ==
    [frame_count |-> 0, total_processing_time |-> 0, total_ipm_time |-> 0,
     total_pip_time |-> 0, last_fps_time |-> now]

updateFrameStatsNoCount(p, processing_time, ipm_time, pip_time, now) ==
    [perf |-> [p EXCEPT !.total_processing_time = @ + processing_time],
     logs |-> << >>]

updateFrameStatsResetSums(p, processing_time, ipm_time, pip_time, now) ==
    LET q == [p EXCEPT !.frame_count = @ + 1,
                       !.total_processing_time = @ + processing_time,
                       !.total_ipm_time = @ + ipm_time,
                       !.total_pip_time = @ + pip_time]
    IN  IF q.frame_count % SampleEvery = 0
        THEN [perf |-> [q EXCEPT !.last_fps_time = now, !.total_processing_time = 0,
                                 !.total_ipm_time = 0, !.total_pip_time = 0],
              logs |-> << <<"INFO", "FPS">>, <<"INFO", "PERF Avg Processing Time">>,
                          <<"INFO", "PERF Avg IPM Time">>, <<"INFO", "PERF Avg PIP Time">> >>]
        ELSE [perf |-> q, logs |-> << >>]

updateFrameStats(p, processing_time, ipm_time, pip_time, now) ==
    LET q == [p EXCEPT !.frame_count = @ + 1,
                       !.total_processing_time = @ + processing_time,
                       !.total_ipm_time = @ + ipm_time,
                       !.total_pip_time = @ + pip_time]
    IN  IF q.frame_count % SampleEvery = 0
        THEN [perf |-> [q EXCEPT !.last_fps_time = now],
              logs |-> << <<"INFO", "FPS">>, <<"INFO", "PERF Avg Processing Time">>,
                          <<"INFO", "PERF Avg IPM Time">>, <<"INFO", "PERF Avg PIP Time">> >>]
        ELSE [perf |-> q, logs |-> << >>]

logSummaryAlways(p) ==
    << <<"INFO", "=== Performance Summary ===">>,
       <<"INFO", "PERF Total Frames Processed">>,
       <<"INFO", "PERF Average Processing Time">>,
       <<"INFO", "PERF Average IPM Time">>,
       <<"INFO", "PERF Average PIP Time">> >>

logSummary(p) ==
    IF p.frame_count > 0
    THEN << <<"INFO", "=== Performance Summary ===">>,
            <<"INFO", "PERF Total Frames Processed">>,
            <<"INFO", "PERF Average Processing Time">>,
            <<"INFO", "PERF Average IPM Time">>,
            <<"INFO", "PERF Average PIP Time">> >>
    ELSE << >>

(* ---------------------------------------------------------------------- *)
(* cv::VideoCapture / cv::VideoWriter handles: release() closes an open    *)
(* handle and does nothing to one that is not open; the destructor that    *)
(* runs when the driver's scope is left calls release().                   *)
(* ---------------------------------------------------------------------- *)
Unopened == [state |-> "unopened", closes |-> 0]
Opened == [state |-> "open", closes |-> 0]

release(r) == IF r.state = "open" THEN [state |-> "closed", closes |-> r.closes + 1] ELSE r

DestroyLeak(r) == r

Destroy(r) == release(r)

(* ---------------------------------------------------------------------- *)
(* Inputs of a run                                                         *)
(* ---------------------------------------------------------------------- *)
Modes == {"none", "video", "images", "other"}
FpsValues == {25, 30}
Keys == {"q", "x"}
PipUs == 2000
(* <<time measured for IPM, total wall time of the frame>>, microseconds *)
Timings == { <<5000, 20000>>, <<11000, 20000>>, <<5000, 31000>>,
             <<5000, 41000>>, <<10001000, 10020000>> }
NominalTiming == <<5000, 20000>>
(* the calls of one loop iteration that can raise *)
DriverThrows == {"resize", "imshow", "write", "record"}
StageThrows == {"ipm.warpPerspective", "pip.copyMakeBorder"}

VARIABLES
    argMode,        \* argv[1]: "none" when argc < 2
    argHasDir,      \* argc >= 3
    fps,            \* target frame rate of the run
    pc,             \* position of the process
    driver,         \* "none", "running", "returned"
    result,         \* main's local result
    exitCode,       \* value returned by main, once pc = "exited"
    g_logger,       \* "live", "deleted" or "deletedTwice"
    log,            \* entries written by Logger::log, <<level, message>>
    timers,         \* keys of Logger::timers
    cap,            \* the VideoCapture of processVideo
    out,            \* the VideoWriter
    nFrames,        \* frames of the video / matched files of the directory
    idx,            \* frames taken from the source so far
    frame_number,   \* the driver's frame_number
    perf,           \* the PerformanceTracker
    written,        \* frames written to the sink, in order
    window,         \* a HighGUI window exists (imshow has succeeded)
    key,            \* key press waiting for the next waitKey
    clock,          \* high_resolution_clock, microseconds
    unreadable,     \* history: source indexes whose imread returned empty
    raised,         \* history: <<source index, call>> that raised
    recorded,       \* history: source indexes passed to updateFrameStats
    seen,           \* history: timings of the frames that were processed
    sig,            \* history: where the first 'q' was pressed
    fatal,          \* history: "none", "source" or "sink" could not be opened
    call,           \* argument and result of a stage applied on its own
    events          \* history: what the code after the loop did, in order

vars == << argMode, argHasDir, fps, pc, driver, result, exitCode, g_logger, log,
           timers, cap, out, nFrames, idx, frame_number, perf, written, window,
           key, clock, unreadable, raised, recorded, seen, sig, fatal, call, events >>

NoSig == [at |-> "none", count |-> 0, idx |-> 0]
NoCall == [op |-> "none"]

(* the state of a process before main has done anything *)
Fresh ==
    /\ driver = "none"
    /\ result = 0
    /\ exitCode = 0
    /\ g_logger = "live"
    /\ log = << >>
    /\ timers = {}
    /\ cap = Unopened
    /\ out = Unopened
    /\ nFrames = 0
    /\ idx = 0
    /\ frame_number = 0
    /\ perf = NewPerformanceTracker(0)
    /\ written = << >>
    /\ window = FALSE
    /\ key = "none"
    /\ clock = 0
    /\ unreadable = {}
    /\ raised = {}
    /\ recorded = {}
    /\ seen = {}
    /\ sig = NoSig
    /\ fatal = "none"
    /\ events = << >>

Init ==
    /\ argMode \in Modes
    /\ argHasDir \in BOOLEAN
    /\ fps \in FpsValues
    /\ pc = "main"
    /\ Fresh
    /\ call = NoCall

Info(m) == <<"INFO", m>>
Error(m) == <<"ERROR", m>>
Warn(m) == <<"WARN", m>>

(* ---------------------------------------------------------------------- *)
(* main, up to the call of a driver (main.cpp 425-463)                     *)
(* ---------------------------------------------------------------------- *)
UsageLines ==
    << Info("Usage:"), Info("  For video input"), Info("  For image sequence"),
       Info("Examples:"), Info("  example video"), Info("  example images") >>

ParseArgs ==
    /\ pc = "main"
    /\ IF argMode = "none"
       THEN /\ log' = log \o UsageLines
            /\ g_logger' = "deleted"
            /\ exitCode' = -1
            /\ pc' = "exited"
            /\ UNCHANGED << result, driver >>
       ELSE IF argMode = "video"
       THEN /\ pc' = "videoInit"
            /\ driver' = "running"
            /\ UNCHANGED << log, g_logger, exitCode, result >>
       ELSE IF argMode = "images"
       THEN IF ~argHasDir
            THEN /\ log' = Append(log, Error("Image directory path required for images mode"))
                 /\ g_logger' = "deleted"
                 /\ exitCode' = -1
                 /\ pc' = "exited"
                 /\ UNCHANGED << result, driver >>
            ELSE /\ pc' = "imagesInit"
                 /\ driver' = "running"
                 /\ UNCHANGED << log, g_logger, exitCode, result >>
       ELSE /\ log' = Append(log, Error("Invalid mode"))
            /\ result' = -1
            /\ pc' = "cleanup"
            /\ UNCHANGED << g_logger, exitCode, driver >>
    /\ UNCHANGED << events, argMode, argHasDir, fps, timers, cap, out, nFrames, idx,
                    frame_number, perf, written, window, key, clock, unreadable,
                    raised, recorded, seen, sig, fatal, call >>

(* ---------------------------------------------------------------------- *)
(* processVideo up to the loop (main.cpp 290-332)                          *)
(* ---------------------------------------------------------------------- *)
VideoStartLines ==
    << Info("=== IPM Video Processing Started ==="), Info("Input Video"), Info("Output Video") >>

ProcessVideoInit ==
    /\ pc = "videoInit"
    /\ perf' = NewPerformanceTracker(clock)
    /\ \E capOk \in BOOLEAN, outOk \in BOOLEAN, n \in 0..MaxFrames, f \in FpsValues :
         IF ~capOk
         THEN /\ log' = log \o VideoStartLines \o << Error("Unable to open video file") >>
              /\ fatal' = "source"
              /\ g_logger' = "deleted"
              /\ result' = -1
              /\ driver' = "returned"
              /\ pc' = "cleanup"
              /\ cap' = Destroy(Unopened)
              /\ UNCHANGED << out, nFrames, fps >>
         ELSE IF ~outOk
         THEN /\ log' = log \o VideoStartLines
                        \o << Info("Video properties"), Error("Unable to create output video file") >>
              /\ fatal' = "sink"
              /\ g_logger' = "deleted"
              /\ result' = -1
              /\ driver' = "returned"
              /\ pc' = "cleanup"
              /\ cap' = Destroy(Opened)
              /\ out' = Destroy(Unopened)
              /\ fps' = f
              /\ nFrames' = n
         ELSE /\ log' = log \o VideoStartLines
                        \o << Info("Video properties"), Info("Video writer initialized successfully") >>
              /\ cap' = Opened
              /\ out' = Opened
              /\ fps' = f
              /\ nFrames' = n
              /\ pc' = "loop"
              /\ UNCHANGED << g_logger, result, driver, fatal >>
    /\ frame_number' = 0
    /\ UNCHANGED << events, argMode, argHasDir, exitCode, timers, idx, written, window,
                    key, clock, unreadable, raised, recorded, seen, sig, call >>

(* ---------------------------------------------------------------------- *)
(* processImageSequence up to the loop (main.cpp 180-203); getImageFiles   *)
(* is represented by the number of files it returns.                       *)
(* ---------------------------------------------------------------------- *)
ImagesStartLines ==
    << Info("=== Image Sequence Processing Started ==="), Info("Input Directory"), Info("Output Video") >>

ProcessImagesInit ==
    /\ pc = "imagesInit"
    /\ \E dirOk \in BOOLEAN, outOk \in BOOLEAN, n \in 0..MaxFrames :
         LET found == IF dirOk THEN n ELSE 0
             listLog == IF dirOk THEN << Info("Found image files in directory") >>
                        ELSE << Error("Error reading directory") >>
         IN  IF found = 0
             THEN /\ log' = log \o ImagesStartLines \o listLog
                            \o << Error("No valid image files found in directory") >>
                  /\ fatal' = "source"
                  /\ result' = -1
                  /\ driver' = "returned"
                  /\ pc' = "cleanup"
                  /\ UNCHANGED << out, nFrames, perf >>
             ELSE IF ~outOk
             THEN /\ log' = log \o ImagesStartLines \o listLog
                            \o << Error("Unable to create output video file") >>
                  /\ fatal' = "sink"
                  /\ result' = -1
                  /\ driver' = "returned"
                  /\ pc' = "cleanup"
                  /\ out' = Destroy(Unopened)
                  /\ nFrames' = found
                  /\ perf' = NewPerformanceTracker(clock)
             ELSE /\ log' = log \o ImagesStartLines \o listLog
                            \o << Info("Video writer initialized successfully"), Info("Processing images") >>
                  /\ out' = Opened
                  /\ nFrames' = found
                  /\ perf' = NewPerformanceTracker(clock)
                  /\ pc' = "loop"
                  /\ UNCHANGED << result, driver, fatal >>
    /\ frame_number' = 0
    /\ UNCHANGED << events, argMode, argHasDir, fps, exitCode, g_logger, timers, cap, idx,
                    written, window, key, clock, unreadable, raised, recorded,
                    seen, sig, call >>

(* ---------------------------------------------------------------------- *)
(* The try block of one loop iteration, after the frame has been read      *)
(* (main.cpp 220-260 and 348-396).  exc names the call that raises in this *)
(* iteration, or "none".  The result tells what the iteration changed and  *)
(* whether it reached the end of the try block (completed).                *)
(* ---------------------------------------------------------------------- *)
IpmStartName(images) == IF images THEN "IPM Transform" ELSE "IPM_Transform"

(* the throughput test: main.cpp 255-256 for images, 394 for video *)
FrameSlow(images, totalUs, fpsv) ==
    IF images THEN totalUs * fpsv > 1000000 ELSE totalUs > VideoSlowMs * 1000

(* order of the raising calls inside the try block; a call of a stage      *)
(* (IPM, pictureInPicture) is caught inside the stage and does not end the *)
(* block.                                                                  *)
ThrowPosition(exc) ==
    CASE exc = "resize" -> 1
      [] exc = "imshow" -> 2
      [] exc = "write"  -> 3
      [] exc = "record" -> 4
      [] OTHER          -> 5

(* imshow (241 / 379) has returned *)
Shown(exc) == ThrowPosition(exc) > 2

(* out.write (245 / 384) has returned *)
Wrote(exc) == ThrowPosition(exc) > 3

(* frame_count++ of updateFrameStats (252 / 391) has run: it precedes every *)
(* call of updateFrameStats and of the throughput warning that can raise.  *)
CountedBeforeWrite(exc) == ThrowPosition(exc) >= 3

Counted(exc) == ThrowPosition(exc) >= 4

TryBlock(images, frame, exc, tm, pf, now, fpsv, t) ==
    LET caught == << Error("Error processing frame") >>
        resized == Resize(frame, FrameWidth, FrameHeight)
        t1 == startTimer(tm, IpmStartName(images))
        ipm == IPM(resized, exc, t[1])
        e1 == endTimer(t1, "IPM_Transform")
        t2 == startTimer(e1.timers, "PIP_Overlay")
        pip == pictureInPicture(resized, ipm.out, DefaultRatio, DefaultBorder,
                                DefaultXMargin, DefaultYOffsetAdjust, exc)
        e2 == endTimer(t2, "PIP_Overlay")
        stages == ipm.logs \o e1.logs \o pip.logs \o e2.logs
        output_frame == Resize(pip.out, FrameWidth, FrameHeight)
        upd == updateFrameStats(pf, t[2], t[1], PipUs, now)
        slow == IF FrameSlow(images, t[2], fpsv)
                THEN << Warn("Frame processing slow") >> ELSE << >>
        completed == ThrowPosition(exc) = 5 /\ ~ipm.escaped
    IN  IF exc = "resize"
        THEN [logs |-> caught, timers |-> tm, perf |-> pf, wrote |-> << >>,
              counted |-> FALSE, shown |-> FALSE, completed |-> FALSE]
        ELSE IF ipm.escaped
        THEN [logs |-> ipm.logs \o caught, timers |-> t1, perf |-> pf, wrote |-> << >>,
              counted |-> FALSE, shown |-> FALSE, completed |-> FALSE]
        ELSE [logs |-> stages \o (IF Counted(exc) THEN upd.logs ELSE << >>)
                       \o (IF completed THEN slow ELSE caught),
              timers |-> e2.timers,
              perf |-> IF Counted(exc) THEN upd.perf ELSE pf,
              wrote |-> IF Wrote(exc) THEN << output_frame >> ELSE << >>,
              counted |-> Counted(exc),
              shown |-> Shown(exc),
              completed |-> completed]

(* the source index after one more frame has been taken: cap.read moves   *)
(* the decode cursor (main.cpp 338), the range-for moves to the next path  *)
(* (main.cpp 205)                                                          *)
NextIndexRetry(i) == i

NextIndex(i) == i + 1

(* the progress line every 100 frames (main.cpp 210-212 and 345-347) *)
ProgressLog(n) == IF n % ProgressEvery = 0 THEN << Info("Processing frame n/total") >> ELSE << >>

(* what both drivers do with the outcome of the try block *)
ApplyTryBlock(r, i, exc, t) ==
    /\ timers' = r.timers
    /\ perf' = r.perf
    /\ written' = written \o r.wrote
    /\ window' = (window \/ r.shown)
    /\ clock' = clock + t[2]
    /\ recorded' = IF r.counted THEN recorded \cup {i} ELSE recorded
    /\ raised' = IF exc = "none" THEN raised ELSE raised \cup { <<i, exc>> }
    /\ seen' = IF r.counted THEN seen \cup {t} ELSE seen
    /\ pc' = IF r.completed THEN "poll" ELSE "loop"

(* ---------------------------------------------------------------------- *)
(* One iteration of the loop of processVideo (main.cpp 335-400)            *)
(* ---------------------------------------------------------------------- *)
VideoEndOfStream ==
    /\ pc = "loop" /\ argMode = "video"
    /\ idx = nFrames
    /\ log' = Append(log, Info("End of video reached"))
    /\ pc' = "finalize"
    /\ UNCHANGED << events, argMode, argHasDir, fps, driver, result, exitCode, g_logger,
                    timers, cap, out, nFrames, idx, frame_number, perf, written,
                    window, key, clock, unreadable, raised, recorded, seen, sig, fatal, call >>

(* cap.read is outside the try block: what it raises leaves processVideo   *)
(* and main, which has no handler.                                         *)
VideoReadRaises ==
    /\ pc = "loop" /\ argMode = "video"
    /\ idx < nFrames
    /\ raised' = raised \cup { <<idx + 1, "cap.read">> }
    /\ pc' = "uncaught"
    /\ UNCHANGED << events, argMode, argHasDir, fps, driver, result, exitCode, g_logger, log,
                    timers, cap, out, nFrames, idx, frame_number, perf, written,
                    window, key, clock, unreadable, recorded, seen, sig, fatal, call >>

VideoFrameOn(timings) ==
    /\ pc = "loop" /\ argMode = "video"
    /\ idx < nFrames
    /\ \E exc \in {"none"} \cup DriverThrows \cup StageThrows, t \in timings :
         /\ exc = "none" \/ t = NominalTiming
         /\ LET i == NextIndex(idx)
                r == TryBlock(FALSE, SourceFrame(i), exc, timers, perf, clock + t[2], fps, t)
            IN  /\ idx' = i
                /\ frame_number' = frame_number + 1
                /\ log' = log \o ProgressLog(frame_number + 1) \o r.logs
                /\ ApplyTryBlock(r, i, exc, t)
    /\ UNCHANGED << events, argMode, argHasDir, fps, driver, result, exitCode, g_logger,
                    cap, out, nFrames, key, unreadable, sig, fatal, call >>

VideoFrame == VideoFrameOn(Timings)

(* ---------------------------------------------------------------------- *)
(* One iteration of the loop of processImageSequence (main.cpp 205-265)    *)
(* ---------------------------------------------------------------------- *)
ImagesExhausted ==
    /\ pc = "loop" /\ argMode = "images"
    /\ idx = nFrames
    /\ pc' = "finalize"
    /\ UNCHANGED << events, argMode, argHasDir, fps, driver, result, exitCode, g_logger, log,
                    timers, cap, out, nFrames, idx, frame_number, perf, written,
                    window, key, clock, unreadable, raised, recorded, seen, sig, fatal, call >>

ImageUnreadable ==
    /\ pc = "loop" /\ argMode = "images"
    /\ idx < nFrames
    /\ idx' = NextIndex(idx)
    /\ frame_number' = frame_number + 1
    /\ log' = log \o ProgressLog(frame_number + 1) \o << Warn("Failed to read image - skipping") >>
    /\ unreadable' = unreadable \cup {idx + 1}
    /\ pc' = "loop"
    /\ UNCHANGED << events, argMode, argHasDir, fps, driver, result, exitCode, g_logger,
                    timers, cap, out, nFrames, perf, written, window, key, clock,
                    raised, recorded, seen, sig, fatal, call >>

(* imread is inside the try block *)
ImageReadRaises ==
    /\ pc = "loop" /\ argMode = "images"
    /\ idx < nFrames
    /\ idx' = NextIndex(idx)
    /\ frame_number' = frame_number + 1
    /\ log' = log \o ProgressLog(frame_number + 1) \o << Error("Error processing image") >>
    /\ raised' = raised \cup { <<idx + 1, "imread">> }
    /\ pc' = "loop"
    /\ UNCHANGED << events, argMode, argHasDir, fps, driver, result, exitCode, g_logger,
                    timers, cap, out, nFrames, perf, written, window, key, clock,
                    unreadable, recorded, seen, sig, fatal, call >>

ImageFrameOn(timings) ==
    /\ pc = "loop" /\ argMode = "images"
    /\ idx < nFrames
    /\ \E exc \in {"none"} \cup DriverThrows \cup StageThrows, t \in timings :
         /\ exc = "none" \/ t = NominalTiming
         /\ LET i == NextIndex(idx)
                r == TryBlock(TRUE, SourceFrame(i), exc, timers, perf, clock + t[2], fps, t)
            IN  /\ idx' = i
                /\ frame_number' = frame_number + 1
                /\ log' = log \o ProgressLog(frame_number + 1) \o r.logs
                /\ ApplyTryBlock(r, i, exc, t)
    /\ UNCHANGED << events, argMode, argHasDir, fps, driver, result, exitCode, g_logger,
                    cap, out, nFrames, key, unreadable, sig, fatal, call >>

ImageFrame == ImageFrameOn(Timings)

(* ---------------------------------------------------------------------- *)
(* waitKey(1) == 'q' after the try block (main.cpp 266-270 and 402-405)    *)
(* ---------------------------------------------------------------------- *)
IsQuitUpper(k) == k = "Q"

IsQuit(k) == k = "q"

Poll ==
    /\ pc = "poll"
    /\ key' = "none"
    /\ IF IsQuit(key)
       THEN /\ pc' = "finalize"
            /\ log' = IF argMode = "images"
                      THEN Append(log, Info("Processing interrupted")) ELSE log
       ELSE /\ pc' = "loop"
            /\ UNCHANGED log
    /\ UNCHANGED << events, argMode, argHasDir, fps, driver, result, exitCode, g_logger,
                    timers, cap, out, nFrames, idx, frame_number, perf, written,
                    window, clock, unreadable, raised, recorded, seen, sig, fatal, call >>

(* waitKey is outside the try block *)
PollRaises ==
    /\ pc = "poll"
    /\ raised' = raised \cup { <<idx, "waitKey">> }
    /\ pc' = "uncaught"
    /\ UNCHANGED << events, argMode, argHasDir, fps, driver, result, exitCode, g_logger, log,
                    timers, cap, out, nFrames, idx, frame_number, perf, written,
                    window, key, clock, unreadable, recorded, seen, sig, fatal, call >>

(* the user presses a key while a window of the program has the focus *)
KeyPress ==
    /\ pc \in {"loop", "poll"}
    /\ window
    /\ key = "none"
    /\ \E k \in Keys :
         /\ key' = k
         /\ sig' = IF k = "q" /\ sig.at = "none"
                   THEN [at |-> pc, count |-> perf.frame_count, idx |-> idx]
                   ELSE sig
    /\ UNCHANGED << events, argMode, argHasDir, fps, pc, driver, result, exitCode, g_logger,
                    log, timers, cap, out, nFrames, idx, frame_number, perf, written,
                    window, clock, unreadable, raised, recorded, seen, fatal, call >>

(* ---------------------------------------------------------------------- *)
(* After the loop (main.cpp 272-288 and 407-423)                           *)
(* ---------------------------------------------------------------------- *)
CompletedLines ==
    << Info("=== Processing Completed ==="), Info("Total processing time"),
       Info("Average processing speed"), Info("Video saved as") >>

Finalize ==
    /\ pc = "finalize"
    /\ cap' = Destroy(release(cap))
    /\ out' = Destroy(release(out))
    /\ log' = log \o CompletedLines \o logSummary(perf)
    /\ events' = (IF argMode = "video" THEN << "cap.release" >> ELSE << >>)
                    \o << "out.release", "summary", "logSummary" >>
    /\ result' = 0
    /\ driver' = "returned"
    /\ pc' = "cleanup"
    /\ UNCHANGED << argMode, argHasDir, fps, exitCode, g_logger, timers, nFrames,
                    idx, frame_number, perf, written, window, key, clock,
                    unreadable, raised, recorded, seen, sig, fatal, call >>

(* ---------------------------------------------------------------------- *)
(* main after the driver (main.cpp 464-467): delete g_logger; return 0.    *)
(* Deleting a logger that processVideo has already deleted is undefined:   *)
(* the process either goes on to return or is aborted by the allocator.    *)
(* ---------------------------------------------------------------------- *)
MainReturn == 0

Cleanup ==
    /\ pc = "cleanup"
    /\ IF g_logger = "live"
       THEN /\ g_logger' = "deleted"
            /\ exitCode' = MainReturn
            /\ pc' = "exited"
       ELSE /\ g_logger' = "deletedTwice"
            /\ \/ exitCode' = MainReturn /\ pc' = "exited"
               \/ exitCode' = exitCode /\ pc' = "crashed"
    /\ UNCHANGED << events, argMode, argHasDir, fps, driver, result, log, timers, cap, out,
                    nFrames, idx, frame_number, perf, written, window, key, clock,
                    unreadable, raised, recorded, seen, sig, fatal, call >>

Next ==
    \/ ParseArgs
    \/ ProcessVideoInit
    \/ ProcessImagesInit
    \/ VideoEndOfStream
    \/ VideoReadRaises
    \/ VideoFrame
    \/ ImagesExhausted
    \/ ImageUnreadable
    \/ ImageReadRaises
    \/ ImageFrame
    \/ Poll
    \/ PollRaises
    \/ KeyPress
    \/ Finalize
    \/ Cleanup

Spec == Init /\ [][Next]_vars

(* The process is one thread that runs until main returns or the process   *)
(* is aborted: whenever it has a next step it takes one.  Key presses are  *)
(* the user's and are not required to happen.                              *)
(* the iterations with every frame that completes taking the nominal time: *)
(* how long a frame takes has no part in which frame is taken next         *)
VideoFrameNominal == VideoFrameOn({NominalTiming})

ImageFrameNominal == ImageFrameOn({NominalTiming})

ProgramStep ==
    \/ ParseArgs
    \/ ProcessVideoInit
    \/ ProcessImagesInit
    \/ VideoEndOfStream
    \/ VideoReadRaises
    \/ VideoFrameNominal
    \/ ImagesExhausted
    \/ ImageUnreadable
    \/ ImageReadRaises
    \/ ImageFrameNominal
    \/ Poll
    \/ PollRaises
    \/ Finalize
    \/ Cleanup

NextLive == ProgramStep \/ KeyPress

SpecLive == Init /\ [][NextLive]_vars /\ WF_vars(ProgramStep)

(* ---------------------------------------------------------------------- *)
(* IPM applied on its own to frames of any size                            *)
(* ---------------------------------------------------------------------- *)
IpmWidths == {1, 70, 570, 1140, 1280, 1920}
IpmHeights == {1, 70, 71, 800, 1080}
IpmElapsed == {5000, 10999, 11000, 10001000}

TestFrame(w, h) == [id |-> 1, cols |-> w, rows |-> h, img |-> <<"src">>, roi |-> NoRoi]

StageIdle ==
    /\ argMode = "none"
    /\ argHasDir = FALSE
    /\ fps = 30
    /\ pc = "stage"
    /\ Fresh

InitIPM ==
    /\ StageIdle
    /\ \E w \in IpmWidths, h \in IpmHeights, x \in {"none"} \cup IpmCalls, u \in IpmElapsed :
         call = [op |-> "IPM", image |-> TestFrame(w, h), throwAt |-> x,
                 elapsedUs |-> u, done |-> FALSE,
                 res |-> [out |-> EmptyMat, escaped |-> FALSE, logs |-> << >>]]

ApplyIPM ==
    /\ call.op = "IPM" /\ ~call.done
    /\ call' = [call EXCEPT !.done = TRUE,
                            !.res = IPM(call.image, call.throwAt, call.elapsedUs)]
    /\ UNCHANGED << events, argMode, argHasDir, fps, pc, driver, result, exitCode, g_logger,
                    log, timers, cap, out, nFrames, idx, frame_number, perf, written,
                    window, key, clock, unreadable, raised, recorded, seen, sig, fatal >>

NextIPM == ApplyIPM

SpecIPM == InitIPM /\ [][NextIPM]_vars

(* ---------------------------------------------------------------------- *)
(* pictureInPicture applied on its own                                     *)
(* ---------------------------------------------------------------------- *)
PipMainSizes == { <<1280, 800>>, <<37, 294>>, <<1280, 147>>, <<800, 600>>, <<100, 20>>, <<0, 0>> }
PipOverlaySizes == { <<1280, 800>>, <<1, 49>>, <<1, 800>>, <<1920, 1080>>, <<0, 800>> }
PipRatios == {2, 3, 30}
PipBorders == {0, 3}
PipXMargins == {0, 30}
PipYAdjusts == {-100, 0}

InitPIP ==
    /\ StageIdle
    /\ \E m \in PipMainSizes, o \in PipOverlaySizes, r \in PipRatios, b \in PipBorders,
          xm \in PipXMargins, ya \in PipYAdjusts, x \in {"none"} \cup PipCalls :
         call = [op |-> "PIP", main |-> TestFrame(m[1], m[2]),
                 overlay |-> [TestFrame(o[1], o[2]) EXCEPT !.id = 2],
                 img_ratio |-> r, border_size |-> b, x_margin |-> xm,
                 y_offset_adjust |-> ya, throwAt |-> x, done |-> FALSE,
                 res |-> [out |-> EmptyMat, pasted |-> FALSE, attempted |-> FALSE,
                          logs |-> << >>]]

ApplyPIP ==
    /\ call.op = "PIP" /\ ~call.done
    /\ call' = [call EXCEPT !.done = TRUE,
                            !.res = pictureInPicture(call.main, call.overlay, call.img_ratio,
                                                     call.border_size, call.x_margin,
                                                     call.y_offset_adjust, call.throwAt)]
    /\ UNCHANGED << events, argMode, argHasDir, fps, pc, driver, result, exitCode, g_logger,
                    log, timers, cap, out, nFrames, idx, frame_number, perf, written,
                    window, key, clock, unreadable, raised, recorded, seen, sig, fatal >>

NextPIP == ApplyPIP

SpecPIP == InitPIP /\ [][NextPIP]_vars

(* ---------------------------------------------------------------------- *)
(* getImageFiles (main.cpp 155-179) and the for loop over its result       *)
(* (main.cpp 205).  A path is the sequence of its bytes; a directory is    *)
(* the sequence of entries in the order directory_iterator yields them.    *)
(* ---------------------------------------------------------------------- *)
MaxEntries == 5

Dot == 46

FileNames ==
    { <<98, 46, 106, 112, 103>>,        \* b.jpg
      <<97, 46, 112, 110, 103>>,        \* a.png
      <<99, 46, 74, 80, 71>>,           \* c.JPG
      <<120, 46, 116, 120, 116>>,       \* x.txt
      <<121, 46, 98, 109, 112>>,        \* y.bmp
      <<66, 46, 106, 112, 101, 103>>,   \* B.jpeg
      <<46, 112, 110, 103>> }           \* .png

DirEntries ==
    { [name |-> n, regular |-> TRUE] : n \in FileNames }
        \cup { [name |-> <<101, 46, 106, 112, 103>>, regular |-> FALSE] }   \* e.jpg/

valid_extensions ==
    { <<46, 106, 112, 103>>, <<46, 106, 112, 101, 103>>, <<46, 112, 110, 103>> }

(* ::tolower in the "C" locale *)
ToLowerIdentity(c) == c

ToLower(c) == IF c >= 65 /\ c <= 90 THEN c + 32 ELSE c

(* std::filesystem::path::extension(): from the last dot of the file name, *)
(* empty when there is no dot or the only dot is the first character       *)
LastDot(name) ==
    LET dots == { k \in 1..Len(name) : name[k] = Dot }
    IN  IF dots = {} THEN 0 ELSE CHOOSE k \in dots : \A j \in dots : j <= k

Extension(name) ==
    IF LastDot(name) <= 1 THEN << >> ELSE SubSeq(name, LastDot(name), Len(name))

LowerCase(ext) == [k \in 1..Len(ext) |-> ToLower(ext[k])]

(* std::string operator<: byte-wise lexicographic *)
RECURSIVE PathLess(_, _)
PathLess(a, b) ==
    IF Len(b) = 0 THEN FALSE
    ELSE IF Len(a) = 0 THEN TRUE
    ELSE IF Head(a) # Head(b) THEN Head(a) < Head(b)
    ELSE PathLess(Tail(a), Tail(b))

RECURSIVE InsertSorted(_, _)
InsertSorted(x, sorted) ==
    IF Len(sorted) = 0 THEN << x >>
    ELSE IF PathLess(x, Head(sorted)) THEN << x >> \o sorted
    ELSE << Head(sorted) >> \o InsertSorted(x, Tail(sorted))

RECURSIVE SortPaths(_)
(* std::sort(image_files.begin(), image_files.end()) *)
SortPaths(paths) ==
    IF Len(paths) = 0 THEN << >> ELSE InsertSorted(Head(paths), SortPaths(Tail(paths)))

RECURSIVE CollectImages(_)
(* the loop of main.cpp 160-171 *)
CollectImages(entries) ==
    IF Len(entries) = 0 THEN << >>
    ELSE (IF Head(entries).regular
             /\ LowerCase(Extension(Head(entries).name)) \in valid_extensions
          THEN << Head(entries).name >> ELSE << >>)
         \o CollectImages(Tail(entries))

getImageFiles(entries) == SortPaths(CollectImages(entries))

RECURSIVE Listings(_)
(* the listings of n distinct entries *)
Listings(n) ==
    IF n = 0 THEN { << >> }
    ELSE { Append(l, e) : l \in Listings(n - 1), e \in DirEntries }

Distinct(l) == \A i \in 1..Len(l), j \in 1..Len(l) : i # j => l[i] # l[j]

InitFiles ==
    /\ StageIdle
    /\ \E n \in 0..MaxEntries :
         \E l \in Listings(n) :
            /\ Distinct(l)
            /\ call = [op |-> "files", entries |-> l, done |-> FALSE,
                       res |-> << >>, visited |-> << >>]

ListFiles ==
    /\ call.op = "files" /\ ~call.done
    /\ call' = [call EXCEPT !.done = TRUE, !.res = getImageFiles(call.entries)]
    /\ UNCHANGED << events, argMode, argHasDir, fps, pc, driver, result, exitCode, g_logger,
                    log, timers, cap, out, nFrames, idx, frame_number, perf, written,
                    window, key, clock, unreadable, raised, recorded, seen, sig, fatal >>

(* one iteration of 'for (const string& image_path : image_files)' *)
VisitNextFile ==
    /\ call.op = "files" /\ call.done
    /\ Len(call.visited) < Len(call.res)
    /\ call' = [call EXCEPT !.visited = Append(@, call.res[Len(call.visited) + 1])]
    /\ UNCHANGED << events, argMode, argHasDir, fps, pc, driver, result, exitCode, g_logger,
                    log, timers, cap, out, nFrames, idx, frame_number, perf, written,
                    window, key, clock, unreadable, raised, recorded, seen, sig, fatal >>

NextFiles == ListFiles \/ VisitNextFile

SpecFiles == InitFiles /\ [][NextFiles]_vars

(* ---------------------------------------------------------------------- *)
(* PerformanceTracker on its own: a tracker constructed at time 0 and      *)
(* updateFrameStats called once per recorded frame (main.cpp 16-46)        *)
(* ---------------------------------------------------------------------- *)
MaxRecorded == 61

(* <<total, rectify>> microseconds of one recorded frame *)
PerfSamples == { <<20000, 5000>>, <<41000, 11000>> }

InitPerf ==
    /\ StageIdle
    /\ call = [op |-> "perf", p |-> NewPerformanceTracker(0), now |-> 0, logs |-> << >>]

UpdateStats ==
    /\ call.op = "perf"
    /\ call.p.frame_count < MaxRecorded
    /\ \E s \in PerfSamples :
         LET now == call.now + s[1]
             r == updateFrameStats(call.p, s[1], s[2], PipUs, now)
         IN  call' = [call EXCEPT !.p = r.perf, !.now = now, !.logs = r.logs]
    /\ UNCHANGED << events, argMode, argHasDir, fps, pc, driver, result, exitCode, g_logger,
                    log, timers, cap, out, nFrames, idx, frame_number, perf, written,
                    window, key, clock, unreadable, raised, recorded, seen, sig, fatal >>

NextPerf == UpdateStats

SpecPerf == InitPerf /\ [][NextPerf]_vars

(* ---------------------------------------------------------------------- *)
(* Logger (Logger.h 33-76) called from several threads.  A mutex is 0 when *)
(* free and the id of its owner otherwise; a thread is at "idle" between   *)
(* calls, and each step below is one stretch of a member function between  *)
(* two operations on a mutex.                                              *)
(* ---------------------------------------------------------------------- *)
NThreads == 2
MaxCalls == 2

Threads == 1..NThreads

LoggerOps == {"log", "startTimer", "endTimer"}

(* ~lock_guard(): the mutex is free again *)
unlockNever(owner) == owner

unlock(owner) == 0

IdleThread(n) == [pc |-> "idle", fn |-> "none", ret |-> "none", left |-> n]

InitLogger ==
    /\ StageIdle
    /\ call = [op |-> "logger",
               th |-> [t \in Threads |-> IdleThread(MaxCalls)],
               logMutex |-> 0, timerMutex |-> 0,
               timers |-> {}, lines |-> 0, nested |-> {}]

(* a thread calls one of the three member functions *)
BeginCall(t) ==
    /\ call.op = "logger"
    /\ call.th[t].pc = "idle" /\ call.th[t].left > 0
    /\ \E f \in LoggerOps :
         call' = [call EXCEPT !.th[t] =
                     [pc |-> (IF f = "log" THEN "log.lock"
                              ELSE IF f = "startTimer" THEN "start.lock" ELSE "end.lock"),
                      fn |-> f, ret |-> "idle", left |-> call.th[t].left - 1]]
    /\ UNCHANGED << events, argMode, argHasDir, fps, pc, driver, result, exitCode, g_logger,
                    log, timers, cap, out, nFrames, idx, frame_number, perf, written,
                    window, key, clock, unreadable, raised, recorded, seen, sig, fatal >>

(* lock_guard<mutex> lock(logMutex) of log (Logger.h 35) *)
LogLock(t) ==
    /\ call.op = "logger"
    /\ call.th[t].pc = "log.lock"
    /\ call.logMutex = 0
    /\ call' = [call EXCEPT !.logMutex = t,
                            !.th[t].pc = "log.write",
                            !.nested = IF call.timerMutex = t
                                       THEN @ \cup { <<"timerMutex", "logMutex", call.th[t].fn>> }
                                       ELSE @]
    /\ UNCHANGED << events, argMode, argHasDir, fps, pc, driver, result, exitCode, g_logger,
                    log, timers, cap, out, nFrames, idx, frame_number, perf, written,
                    window, key, clock, unreadable, raised, recorded, seen, sig, fatal >>

(* the body of log and its return (Logger.h 36-57) *)
LogWrite(t) ==
    /\ call.op = "logger"
    /\ call.th[t].pc = "log.write"
    /\ call' = [call EXCEPT !.lines = @ + 1,
                            !.logMutex = unlock(@),
                            !.th[t].pc = call.th[t].ret,
                            !.th[t].ret = "idle"]
    /\ UNCHANGED << events, argMode, argHasDir, fps, pc, driver, result, exitCode, g_logger,
                    log, timers, cap, out, nFrames, idx, frame_number, perf, written,
                    window, key, clock, unreadable, raised, recorded, seen, sig, fatal >>

(* lock_guard<mutex> lock(timerMutex) of startTimer (Logger.h 59) *)
StartLock(t) ==
    /\ call.op = "logger"
    /\ call.th[t].pc = "start.lock"
    /\ call.timerMutex = 0
    /\ call' = [call EXCEPT !.timerMutex = t,
                            !.th[t].pc = "start.set",
                            !.nested = IF call.logMutex = t
                                       THEN @ \cup { <<"logMutex", "timerMutex", call.th[t].fn>> }
                                       ELSE @]
    /\ UNCHANGED << events, argMode, argHasDir, fps, pc, driver, result, exitCode, g_logger,
                    log, timers, cap, out, nFrames, idx, frame_number, perf, written,
                    window, key, clock, unreadable, raised, recorded, seen, sig, fatal >>

(* timers[operation] = now and the return of startTimer (Logger.h 60-61) *)
StartSet(t) ==
    /\ call.op = "logger"
    /\ call.th[t].pc = "start.set"
    /\ call' = [call EXCEPT !.timers = @ \cup {"operation"},
                            !.timerMutex = unlock(@),
                            !.th[t].pc = "idle"]
    /\ UNCHANGED << events, argMode, argHasDir, fps, pc, driver, result, exitCode, g_logger,
                    log, timers, cap, out, nFrames, idx, frame_number, perf, written,
                    window, key, clock, unreadable, raised, recorded, seen, sig, fatal >>

(* lock_guard<mutex> lock(timerMutex) of endTimer, timers.find, and the    *)
(* call of log in either branch (Logger.h 64-71, 74)                       *)
EndLock(t) ==
    /\ call.op = "logger"
    /\ call.th[t].pc = "end.lock"
    /\ call.timerMutex = 0
    /\ call' = [call EXCEPT !.timerMutex = t,
                            !.th[t].pc = "log.lock",
                            !.th[t].ret = IF "operation" \in call.timers
                                          THEN "end.erase" ELSE "end.exit",
                            !.nested = IF call.logMutex = t
                                       THEN @ \cup { <<"logMutex", "timerMutex", call.th[t].fn>> }
                                       ELSE @]
    /\ UNCHANGED << events, argMode, argHasDir, fps, pc, driver, result, exitCode, g_logger,
                    log, timers, cap, out, nFrames, idx, frame_number, perf, written,
                    window, key, clock, unreadable, raised, recorded, seen, sig, fatal >>

(* after log has returned: timers.erase(it) when the timer was found, and  *)
(* the return of endTimer (Logger.h 72-76)                                 *)
EndExit(t) ==
    /\ call.op = "logger"
    /\ call.th[t].pc \in {"end.erase", "end.exit"}
    /\ call' = [call EXCEPT !.timers = IF call.th[t].pc = "end.erase"
                                       THEN @ \ {"operation"} ELSE @,
                            !.timerMutex = unlock(@),
                            !.th[t].pc = "idle"]
    /\ UNCHANGED << events, argMode, argHasDir, fps, pc, driver, result, exitCode, g_logger,
                    log, timers, cap, out, nFrames, idx, frame_number, perf, written,
                    window, key, clock, unreadable, raised, recorded, seen, sig, fatal >>

ThreadStep(t) ==
    \/ BeginCall(t)
    \/ LogLock(t)
    \/ LogWrite(t)
    \/ StartLock(t)
    \/ StartSet(t)
    \/ EndLock(t)
    \/ EndExit(t)

NextLogger == \E t \in Threads : ThreadStep(t)

(* a thread that can run is scheduled *)
SpecLogger == InitLogger /\ [][NextLogger]_vars /\ \A t \in Threads : WF_vars(ThreadStep(t))

(* ====================================================================== *)
(* Properties                                                             *)
(* ====================================================================== *)
Ids(frames) == [k \in 1..Len(frames) |-> frames[k].id]

RECURSIVE Ascending(_, _)
(* the indexes lo..nFrames that are not in the set skip, in source order *)
Ascending(lo, skip) ==
    IF lo > nFrames THEN << >>
    ELSE (IF lo \in skip THEN << >> ELSE << lo >>) \o Ascending(lo + 1, skip)

HasLevel(level) == \E k \in 1..Len(log) : log[k][1] = level

Logged(entry) == \E k \in 1..Len(log) : log[k] = entry

(* the run went through the loop and the code after it *)
RanToEnd == driver = "returned" /\ fatal = "none"

(* C1: in image-sequence mode, with some files unreadable, no interrupt    *)
(* and no other failure, the run visits every file, the sink receives the  *)
(* readable files in source order, and the tracker counts exactly them.    *)
C1_UnreadableFilesAreSkipped ==
    (argMode = "images" /\ RanToEnd /\ raised = {} /\ sig.at = "none")
        => /\ idx = nFrames
           /\ Ids(written) = Ascending(1, unreadable)
           /\ perf.frame_count = nFrames - Cardinality(unreadable)

C1_Witness ==
    /\ argMode = "images" /\ pc = "exited" /\ RanToEnd
    /\ raised = {} /\ sig.at = "none"
    /\ nFrames = 3 /\ unreadable = {2}
    /\ Ids(written) = <<1, 3>> /\ perf.frame_count = 2

(* C2: at every iteration boundary of both drivers the tracker's frame     *)
(* count equals the number of frames written to the sink, the frames       *)
(* counted are the frames written, and no unreadable frame is counted.     *)
C2_CountEqualsWritten ==
    /\ perf.frame_count = Len(written)
    /\ recorded = { written[k].id : k \in 1..Len(written) }
    /\ Cardinality(recorded) = Len(written)
    /\ unreadable \cap recorded = {}

C2_Witness ==
    /\ pc = "loop" /\ argMode = "images"
    /\ unreadable # {} /\ raised # {}
    /\ perf.frame_count = 1 /\ Len(written) = 1

(* C3 (as claimed): whatever call of a loop iteration lets an exception   *)
(* reach the driver (read, resize, display, sink write, timing record,     *)
(* interrupt poll; what IPM and pictureInPicture raise inside is contained *)
(* by the stage and does not reach the driver), the driver catches it, the *)
(* frame is neither written nor counted, and the run goes on.              *)
ReachedDriver == { e \in raised : e[2] \notin IpmCalls \cup PipCalls }

C3_EveryExceptionIsCaughtAndSkips ==
    /\ pc # "uncaught"
    /\ \A e \in ReachedDriver :
         /\ e[1] \notin recorded
         /\ e[1] \notin { written[k].id : k \in 1..Len(written) }

C5_UnusableInputExitsMinusOne ==
    (fatal # "none" /\ pc \in {"exited", "crashed"})
        => /\ HasLevel("ERROR")
           /\ pc = "exited"
           /\ exitCode = -1

(* C6 (as claimed): with no arguments or an unknown mode, a message is     *)
(* logged and the process exits with code -1.                              *)
C6_BadArgumentsExitMinusOne ==
    (argMode \in {"none", "other"} /\ pc = "exited")
        => /\ Len(log) > 0
           /\ exitCode = -1

(* C7: when a driver has returned, on any path, every handle it opened has *)
(* been closed exactly once and a handle that never opened has not been    *)
(* closed.                                                                 *)
ClosedOnce(r) ==
    /\ r.state \in {"unopened", "closed"}
    /\ r.state = "closed" => r.closes = 1
    /\ r.state = "unopened" => r.closes = 0

C7_HandlesClosedExactlyOnce ==
    driver = "returned" => ClosedOnce(cap) /\ ClosedOnce(out)

C7_Witness ==
    /\ driver = "returned" /\ fatal = "sink" /\ argMode = "video"
    /\ cap.state = "closed" /\ cap.closes = 1 /\ out.state = "unopened"

(* C8 (as claimed): a run in which every frame is read and processed and   *)
(* every measured time is within its budget (10 ms for IPM, 1000/fps ms    *)
(* for the frame) logs no warning.                                         *)
WithinBudget(t) == t[1] <= IpmSlowLimit * 1000 /\ t[2] * fps <= 1000000

C8_CleanRunLogsNoWarning ==
    (RanToEnd /\ unreadable = {} /\ raised = {} /\ \A t \in seen : WithinBudget(t))
        => ~HasLevel("WARN")

(* C9: IPM returns a frame of the size of its input whether or not the     *)
(* transform succeeds, returns the input itself when a call of the         *)
(* transform raises, and lets no exception out.                            *)
C9_IpmIsTotal ==
    (call.op = "IPM" /\ call.done)
        => /\ call.res.out.cols = call.image.cols
           /\ call.res.out.rows = call.image.rows
           /\ (call.throwAt \in IpmCalls => call.res.out = call.image)
           /\ ~call.res.escaped

C9_Witness ==
    /\ call.op = "IPM" /\ call.done
    /\ call.throwAt = "none"
    /\ call.image.cols = 1920 /\ call.image.rows = 1080
    /\ call.res.out.cols = 1920 /\ call.res.out.rows = 1080
    /\ call.res.out # call.image

(* C10 (as claimed): with insetW = floor((rows/ratio) * inset.cols /       *)
(* inset.rows) + 2*border, the inset is pasted if and only if the bordered *)
(* rectangle lies inside the main frame, and otherwise the main frame is   *)
(* returned unchanged and no error is reported.  Stated for calls in which *)
(* no library call fails for a reason outside the arguments.               *)
ClaimedFits(c) ==
    LET insetH == (c.main.rows \div c.img_ratio) + 2 * c.border_size
        insetW == (((c.main.rows \div c.img_ratio) * c.overlay.cols) \div c.overlay.rows)
                  + 2 * c.border_size
        x_offset == c.main.cols - insetW - c.x_margin
        y_offset == (c.main.rows \div 2) - insetH + c.y_offset_adjust
    IN  /\ x_offset >= 0
        /\ y_offset >= 0
        /\ x_offset + insetW <= c.main.cols
        /\ y_offset + insetH <= c.main.rows

PipInScope ==
    /\ call.op = "PIP" /\ call.done
    /\ ~MatEmpty(call.main) /\ ~MatEmpty(call.overlay)

PipErrorLogged == \E k \in 1..Len(call.res.logs) : call.res.logs[k][1] = "ERROR"

C10_PastesIffClaimedRectangleFits ==
    (PipInScope /\ call.throwAt = "none")
        => /\ call.res.pasted <=> ClaimedFits(call)
           /\ ~ClaimedFits(call) => (call.res.out = call.main /\ ~PipErrorLogged)

(* C10 (amended): with w0 the value the code computes in double            *)
(* arithmetic, the inset is pasted if and only if no call raises (resize   *)
(* raises when rows/ratio or w0 is not positive) and the bordered          *)
(* rectangle lies inside the main frame; in every other case the main      *)
(* frame is returned unchanged, with an error logged exactly when a call   *)
(* raised.                                                                 *)
PipRaises(c) ==
    \/ c.throwAt \in PipCalls
    \/ c.main.rows \div c.img_ratio <= 0
    \/ DoubleScaleTrunc(c.main.rows \div c.img_ratio, c.overlay.cols, c.overlay.rows) <= 0
    \/ c.border_size < 0

PipRectangle(c) ==
    LET h0 == c.main.rows \div c.img_ratio
        w0 == DoubleScaleTrunc(h0, c.overlay.cols, c.overlay.rows)
        insetH == h0 + 2 * c.border_size
        insetW == w0 + 2 * c.border_size
    IN  << c.main.cols - insetW - c.x_margin,
           (c.main.rows \div 2) - insetH + c.y_offset_adjust, insetW, insetH >>

PipRectangleInside(c) ==
    LET q == PipRectangle(c)
    IN  /\ q[1] >= 0
        /\ q[2] >= 0
        /\ q[1] + q[3] <= c.main.cols
        /\ q[2] + q[4] <= c.main.rows

C10_PastesIffComputedRectangleFits ==
    PipInScope
        => /\ call.res.pasted <=> (~PipRaises(call) /\ PipRectangleInside(call))
           /\ call.res.pasted => /\ call.res.out.roi = PipRectangle(call)
                                 /\ call.res.out.cols = call.main.cols
                                 /\ call.res.out.rows = call.main.rows
           /\ ~call.res.pasted => call.res.out = call.main
           /\ PipErrorLogged <=> PipRaises(call)

C10_Witness ==
    /\ PipInScope /\ call.throwAt = "none"
    /\ call.main.cols = 37 /\ call.main.rows = 294
    /\ call.overlay.cols = 1 /\ call.overlay.rows = 49
    /\ call.img_ratio = 3 /\ call.border_size = 3
    /\ call.x_margin = 30 /\ call.y_offset_adjust = 0
    /\ call.res.pasted /\ call.res.out.roi = <<0, 43, 7, 104>>
    /\ ~ClaimedFits(call)

(* C11: when the main frame or the inset has zero area, pictureInPicture   *)
(* logs an error and returns the main frame as it is, before any resize,   *)
(* border or copy is attempted.                                            *)
ZeroArea(m) == m.cols * m.rows = 0

C11_EmptyInputIsRejected ==
    (call.op = "PIP" /\ call.done /\ (ZeroArea(call.main) \/ ZeroArea(call.overlay)))
        => /\ call.res.out = call.main
           /\ ~call.res.pasted
           /\ ~call.res.attempted
           /\ call.res.logs = << <<"ERROR", "PIP: One or both images are empty">> >>

C11_Witness ==
    /\ call.op = "PIP" /\ call.done
    /\ call.main.cols = 1280 /\ call.main.rows = 800
    /\ call.overlay.cols = 0 /\ call.overlay.rows = 800
    /\ call.res.out = call.main
    /\ ~call.res.attempted
    /\ Len(call.res.logs) = 1

(* C12: getImageFiles returns exactly the regular files whose extension,   *)
(* compared without regard to case, is .jpg, .jpeg or .png, in ascending   *)
(* byte-wise order of path, and the loop visits them in that order.        *)
FoldCase(c) == IF c \in 65..90 THEN c + 32 ELSE c

EndsWithFolded(name, ext) ==
    /\ Len(name) > Len(ext)
    /\ \A k \in 1..Len(ext) : FoldCase(name[Len(name) - Len(ext) + k]) = ext[k]

ClaimedImage(e) ==
    /\ e.regular
    /\ \E ext \in valid_extensions : EndsWithFolded(e.name, ext)

LexLess(a, b) ==
    \E k \in 1..Len(b) :
        /\ k <= Len(a) + 1
        /\ \A j \in 1..(k - 1) : a[j] = b[j]
        /\ (k = Len(a) + 1 \/ a[k] < b[k])

C12_ImageFilesFilteredAndSorted ==
    (call.op = "files" /\ call.done)
        => /\ { call.res[k] : k \in 1..Len(call.res) }
                = { call.entries[k].name :
                      k \in { j \in 1..Len(call.entries) : ClaimedImage(call.entries[j]) } }
           /\ \A i \in 1..Len(call.res), j \in 1..Len(call.res) :
                 i < j => LexLess(call.res[i], call.res[j])
           /\ Len(call.visited) <= Len(call.res)
           /\ call.visited = SubSeq(call.res, 1, Len(call.visited))

C12_Witness ==
    /\ call.op = "files" /\ call.done
    /\ call.entries = << [name |-> <<98, 46, 106, 112, 103>>, regular |-> TRUE],
                         [name |-> <<97, 46, 112, 110, 103>>, regular |-> TRUE],
                         [name |-> <<99, 46, 74, 80, 71>>, regular |-> TRUE],
                         [name |-> <<120, 46, 116, 120, 116>>, regular |-> TRUE],
                         [name |-> <<121, 46, 98, 109, 112>>, regular |-> TRUE] >>
    /\ call.res = << <<97, 46, 112, 110, 103>>, <<98, 46, 106, 112, 103>>,
                     <<99, 46, 74, 80, 71>> >>
    /\ call.visited = call.res

(* C13 (as claimed): every loop iteration, the skipped ones included, runs *)
(* the interrupt poll: an iteration that has taken a frame (frame_number   *)
(* has advanced) goes on to waitKey before the next frame is taken.        *)
C13_EveryIterationPolls ==
    [][(pc = "loop" /\ frame_number' = frame_number + 1) => pc' = "poll"]_vars

(* C14 (as claimed): the interrupt is checked at the top of the iteration: *)
(* with a 'q' already signaled when an iteration starts, the iteration's   *)
(* frame is not read, written or recorded.                                 *)
C14_InterruptCheckedBeforeRead ==
    [][(pc = "loop" /\ key = "q")
          => /\ idx' = idx
             /\ written' = written
             /\ perf' = perf]_vars

(* C15 (as claimed): a successful IPM call logs the slow-processing        *)
(* warning exactly when its measured elapsed time exceeds 10 ms, and the   *)
(* warning does not change the returned frame.                             *)
IpmWarned == \E k \in 1..Len(call.res.logs) : call.res.logs[k][1] = "WARN"

C15_IpmWarnsAboveTenMs ==
    (call.op = "IPM" /\ call.done /\ call.throwAt = "none")
        => /\ IpmWarned <=> call.elapsedUs > 10 * 1000
           /\ call.res.out.cols = call.image.cols
           /\ call.res.out.rows = call.image.rows

(* C16 (as claimed): in both drivers a frame that completes the try block  *)
(* logs the throughput warning exactly when its wall time in milliseconds  *)
(* exceeds 1000 / fps, and the run goes on to the poll.                    *)
NewLines == SubSeq(log', Len(log) + 1, Len(log'))

C16_ThroughputWarningAtTargetRate ==
    [][(pc = "loop" /\ pc' = "poll")
          => ((\E k \in 1..Len(NewLines) : NewLines[k] = Warn("Frame processing slow"))
                <=> (clock' - clock) * fps > 1000 * 1000)]_vars

Count(entry) == Cardinality({ k \in 1..Len(log) : log[k] = entry })

Position(entry) == CHOOSE k \in 1..Len(log) : log[k] = entry

FinalSteps ==
    (IF argMode = "video" THEN << "cap.release" >> ELSE << >>)
        \o << "out.release", "summary", "logSummary" >>

SummarizedOnce ==
    /\ cap.state # "open" /\ out.state # "open"
    /\ events = FinalSteps
    /\ \A k \in 1..Len(CompletedLines) : Count(CompletedLines[k]) = 1
    /\ Count(Info("=== Performance Summary ===")) = (IF perf.frame_count = 0 THEN 0 ELSE 1)
    /\ perf.frame_count = 0 => \A k \in 1..Len(log) : log[k][2] # "PERF Total Frames Processed"
    /\ perf.frame_count > 0
          => Position(Info("Video saved as")) < Position(Info("=== Performance Summary ==="))

C20_LoggerDeletedExactlyOnce ==
    /\ g_logger # "deletedTwice"
    /\ pc \in {"exited", "crashed"} => g_logger = "deleted"

(* C19: every iteration takes exactly one frame from the source, no frame  *)
(* is taken twice, and a run that has entered the loop leaves it, runs the *)
(* code after the loop and returns from the driver (unless an exception    *)
(* that no handler catches ends the process first).                        *)
C19_LoopTerminates ==
    /\ [][/\ idx' \in {idx, idx + 1}
          /\ frame_number' # frame_number => idx' = idx + 1
          /\ idx' <= nFrames']_vars
    /\ (pc = "loop") ~> (driver = "returned" \/ pc = "uncaught")

C19_Witness ==
    /\ driver = "returned" /\ fatal = "none"
    /\ nFrames = 3 /\ idx = 3
    /\ unreadable # {}
    /\ raised # {}
    /\ Len(written) = 1
    /\ events # << >>

(* C21: calls of log, startTimer and endTimer from several threads never   *)
(* deadlock: logMutex is taken while holding timerMutex only in endTimer,  *)
(* timerMutex is never taken while holding logMutex, a call that has       *)
(* returned holds no mutex, and every call returns: the threads end up     *)
(* idle with all their calls made.                                         *)
HoldsNone(t) == call.logMutex # t /\ call.timerMutex # t

LockOrderKept ==
    call.op = "logger"
        => /\ call.nested \subseteq { <<"timerMutex", "logMutex", "endTimer">> }
           /\ \A t \in Threads : call.th[t].pc = "idle" => HoldsNone(t)
           /\ \A t \in Threads :
                 (call.logMutex = t /\ call.timerMutex = t) => call.th[t].fn = "endTimer"

C21_LoggerNeverDeadlocks ==
    /\ []LockOrderKept
    /\ <>[](\A t \in Threads : call.th[t].pc = "idle" /\ call.th[t].left = 0)

C21_Witness ==
    /\ call.op = "logger"
    /\ call.timerMutex = 1 /\ call.logMutex = 1
    /\ call.th[1].pc = "log.write" /\ call.th[1].fn = "endTimer"
    /\ call.th[1].ret = "end.erase"
    /\ call.th[2].pc = "log.lock"
    /\ call.nested # {}

(* C22: as the drivers call it (1280x800 frame, inset of the same size,    *)
(* ratio 3, border 3, margins 30 and -100), pictureInPicture places the    *)
(* 431x272 bordered inset at (819, 28), which is inside the frame: every   *)
(* written frame whose composite raised nothing carries the inset there.   *)
PipRaisedFor(f) == \E c \in PipCalls : <<f.id, c>> \in raised

C22_DefaultPlacementIsPasted ==
    \A k \in 1..Len(written) :
        /\ written[k].cols = 1280 /\ written[k].rows = 800
        /\ ~PipRaisedFor(written[k])
              => /\ written[k].roi = <<819, 28, 431, 272>>
                 /\ Head(written[k].img) = "pip"
                 /\ 819 + 431 <= written[k].cols
                 /\ 28 + 272 <= written[k].rows

C22_Witness ==
    /\ Len(written) = 2
    /\ raised = { <<2, "ipm.warpPerspective">> }
    /\ written[1].roi = <<819, 28, 431, 272>>
    /\ written[2].roi = <<819, 28, 431, 272>>

(* C23 (as claimed): at the end of a run the driver's frame_number, the    *)
(* number it reports as processed, equals the tracker's frame count and    *)
(* the number of frames written.                                           *)
C23_ReportedCountEqualsRecorded ==
    RanToEnd => /\ frame_number = perf.frame_count
                /\ frame_number = Len(written)

====
